---- MODULE Spec2Model ----
(***************************************************************************)
(* The nightly repository audit (scripts/nightly-audit.js) as a state      *)
(* machine: one process invocation after another, each running main() step *)
(* by step against a repository snapshot, with the trend store file and    *)
(* the report files persisting between invocations.                        *)
(***************************************************************************)
EXTENDS Integers, Sequences, FiniteSets, TLC

\* ---------------------------------------------------------------- bounds
MaxRuns == 2        \* invocations explored
MaxDate == 2        \* run dates are day numbers 1..MaxDate
MaxQueue == 3       \* length of an arbitrary AutoFix queue handed to runAutoFixes
MaxCount == 5       \* finding counts the grade operators are compared on
MaxJobs == 2        \* jobs in a cron-health.json
MaxStore == 7       \* entries of an arbitrary trend store left by earlier runs
MaxDocs == 21       \* knowledge files with missing or incomplete frontmatter
MaxEntries == 3     \* directory entries of a tree handed to getAllFiles
MaxScanned == 1     \* files of an arbitrary file set handed to the secret scan
MaxRetries == 3     \* largest maxRetries handed to iqfeedQueryWithRetry
MaxTunnels == 2     \* tunnel processes start-tunnel.js spawns

\* ------------------------------------------------------ program constants
KeepDays == 90      \* recordTrend keeps the last 90 entries
RecentDays == 7     \* detectRecurringIssues looks at the last 7 entries
WeekDays == 5       \* generateWeeklyReview looks at the last 5 entries
Friday == 5         \* Date.prototype.getDay() on a Friday
NumChecks == 14     \* main runs 14 checks
MissingListed == 20     \* checkFrontmatter lists 20 files without frontmatter
IncompleteListed == 10  \* and 10 files with incomplete frontmatter
MB == 1048576       \* 1024 * 1024, the divisor of the size statistics

Dates == 1..MaxDate

CRITICAL == "CRITICAL"
WARNING == "WARNING"
INFO == "INFO"
OK == "OK"

\* ------------------------------------------------------------- utilities
CountSev(fs, sev) == Cardinality({i \in DOMAIN fs : fs[i].severity = sev})

\* (bytes / 1024 / 1024).toFixed(1), as a number of tenths of a MB
ToFixed1(bytes) == (bytes * 10 + MB \div 2) \div MB

\* addFinding(severity, category, message, details = null).  The details of
\* most findings are text derived from the same facts as the message; they
\* are kept, as a tuple, where they are derived from something else.
FindingWith(severity, category, message, details) ==
    [severity |-> severity, category |-> category, message |-> message,
     details |-> details]

Finding(severity, category, message) ==
    FindingWith(severity, category, message, <<>>)

AutoFix(description, action) == [description |-> description, action |-> action]

\* What a check hands back: the findings it pushed, the fixes it queued.
Out(fs, ax) == [findings |-> fs, fixes |-> ax]

\* ---------------------------------------------------------- getAllFiles
(* A directory tree below the root handed to getAllFiles: entry k of the   *)
(* sequence lies in directory parent (0: the root, else an earlier entry   *)
(* that is a directory), isDir is entry.isDirectory(), dot is              *)
(* entry.name.startsWith('.') and ext is entry.name.endsWith(ext).         *)
(* readdirSync lists a directory's entries in the order of the sequence,   *)
(* and an entry's number stands for its full path.                         *)
DirEntry(parent, isDir, dot, ext) ==
    [parent |-> parent, isDir |-> isDir, dot |-> dot, ext |-> ext]

\* the loop "for (const entry of entries)" over the entries of dir from k on
RECURSIVE Walk(_, _, _)
Walk(tree, dir, k) ==
    IF k > Len(tree) THEN <<>>
    ELSE (IF tree[k].parent # dir THEN <<>>
          ELSE IF tree[k].isDir /\ ~tree[k].dot THEN Walk(tree, k, k + 1)
          ELSE IF tree[k].ext THEN <<k>>
          ELSE <<>>)
         \o Walk(tree, dir, k + 1)

\* getAllFiles(dir, ext) on the root: readdirSync raises when the root does
\* not exist, and the catch block returns the still empty list
getAllFiles(rootExists, tree) ==
    IF ~rootExists THEN <<>> ELSE Walk(tree, 0, 1)

\* --------------------------------------------------- repository snapshot
(* The facts about the repository the checks branch on.  raises is the     *)
(* number of the first check in which a call outside any try block raises  *)
(* (0: none): 1 for a knowledge/ entry readFileSync cannot read, 14 for a  *)
(* cron-health.json holding the JSON value null.  jobs is report.jobs of   *)
(* a parseable cron-health.json, each job by the two fields the check      *)
(* reads.  scanned is checkSecrets' fileSet, each file by what the check   *)
(* tests: secret, a credential pattern matches its content; deep, the      *)
(* severities of the content-risk patterns that match it; recent, its      *)
(* mtime lies within the last 7 days; tool, its basename is one of         *)
(* excludePatterns; allowed, its path is one of deepScanExcludePaths;      *)
(* daily, its path is memory/YYYY-MM-DD.md.                                *)
ScannedFile(secret, deep, recent, tool, allowed, daily) ==
    [secret |-> secret, deep |-> deep, recent |-> recent, tool |-> tool,
     allowed |-> allowed, daily |-> daily]

\* an old knowledge file holding a credential
SecretFile == ScannedFile(TRUE, {}, FALSE, FALSE, FALSE, FALSE)

\* a knowledge file changed today that holds an injection phrase
InjectedFile == ScannedFile(FALSE, {"HIGH"}, TRUE, FALSE, FALSE, FALSE)

Job(circuitOpen, status) == [circuitOpen |-> circuitOpen, status |-> status]

Clean ==
    [ kbFiles |-> 10, kbSize |-> 3 * MB, memFiles |-> 4, memSize |-> 2 * MB,
      scriptFiles |-> 5,
      missing |-> 0, incomplete |-> 0,
      topicsIndex |-> "ok", indexedCount |-> 10,
      badDirs |-> 0, scanned |-> {},
      sprawl |-> 0,
      filesIndex |-> "ok", orphans |-> 0,
      uncommitted |-> 0, behind |-> 0, ahead |-> 0,
      naming |-> 0, tagIssues |-> 0, memIssues |-> 0,
      keywordsIndex |-> "ok", unreachable |-> 0, keywordOnlyMany |-> FALSE,
      cron |-> "ok", jobs |-> <<Job(FALSE, "ok"), Job(FALSE, "ok")>>,
      kbUpdateExists |-> TRUE, staleFiles |-> 0,
      raises |-> 0 ]

Snapshots ==
    { Clean,
      [Clean EXCEPT !.missing = 2, !.incomplete = 1, !.indexedCount = 8,
                    !.memSize = 5976884],
      [Clean EXCEPT !.missing = 1, !.uncommitted = 1, !.kbUpdateExists = FALSE,
                    !.memSize = 5 * MB],
      [Clean EXCEPT !.badDirs = 1, !.sprawl = 2, !.naming = 1, !.tagIssues = 1,
                    !.memIssues = 1, !.memSize = 11 * MB, !.ahead = 1,
                    !.kbFiles = 101, !.indexedCount = 101, !.staleFiles = 3],
      [Clean EXCEPT !.scanned = {SecretFile}, !.topicsIndex = "corrupt",
                    !.cron = "absent"],
      [Clean EXCEPT !.raises = 1],
      [Clean EXCEPT !.scanned = {SecretFile}, !.raises = 14],
      [Clean EXCEPT !.scanned = {SecretFile, InjectedFile}, !.badDirs = 1,
                    !.naming = 2, !.missing = 1, !.indexedCount = 12,
                    !.jobs = <<Job(TRUE, "failed"), Job(FALSE, "overdue")>>] }

\* ----------------------------------------------------------------- checks
\* list.slice(0, n): how many of the list's k names are kept
Slice(k, n) == IF k < n THEN k ELSE n

\* Check 1: frontmatter validation; returns files.length.  The details of a
\* finding are << names listed, N of the "... and N more" suffix (0: none) >>.
checkFrontmatter(s) ==
    IF s.missing = 0 /\ s.incomplete = 0
    THEN Out(<<Finding(OK, "Frontmatter", "complete")>>, <<>>)
    ELSE Out((IF s.missing > 0
               THEN <<FindingWith(WARNING, "Frontmatter", "missing",
                                  << Slice(s.missing, MissingListed),
                                     IF s.missing > MissingListed
                                     THEN s.missing - MissingListed ELSE 0 >>)>>
               ELSE <<>>)
             \o (IF s.incomplete > 0
                 THEN <<FindingWith(WARNING, "Frontmatter", "incomplete",
                                    << Slice(s.incomplete, IncompleteListed),
                                       0 >>)>>
                 ELSE <<>>),
             (IF s.missing > 0
               THEN <<AutoFix(<<"Tag untagged files + rebuild index", s.missing>>,
                              "kbUpdate")>> ELSE <<>>)
             \o (IF s.incomplete > 0
                 THEN <<AutoFix(<<"Repair incomplete frontmatter files", s.incomplete>>,
                                "kbUpdate")>> ELSE <<>>))

checkIndexFreshnessAnyDiff(s, actualFileCount) ==
    IF s.topicsIndex = "absent"
    THEN Out(<<Finding(CRITICAL, "Index", "does not exist")>>, <<>>)
    ELSE IF s.topicsIndex = "corrupt"
    THEN Out(<<Finding(CRITICAL, "Index", "corrupted")>>, <<>>)
    ELSE IF actualFileCount = s.indexedCount
    THEN Out(<<Finding(OK, "Index", "current")>>, <<>>)
    ELSE Out(<<Finding(WARNING, "Index", "stale")>>,
             <<AutoFix(<<"Rebuild KB index (stale)", 0>>, "kbUpdate")>>)

\* Check 2: index freshness.  s.indexedCount is index._meta?.totalFiles || 0
\* of a parseable TOPICS-INDEX.json.
checkIndexFreshness(s, actualFileCount) ==
    IF s.topicsIndex = "absent"
    THEN Out(<<Finding(CRITICAL, "Index", "does not exist")>>, <<>>)
    ELSE IF s.topicsIndex = "corrupt"
    THEN Out(<<Finding(CRITICAL, "Index", "corrupted")>>, <<>>)
    ELSE LET diff == actualFileCount - s.indexedCount
         IN IF diff = 0
            THEN Out(<<Finding(OK, "Index", "current")>>, <<>>)
            ELSE IF diff > 0
            THEN Out(<<Finding(WARNING, "Index", "stale")>>,
                     <<AutoFix(<<"Rebuild KB index (stale)", 0>>, "kbUpdate")>>)
            ELSE Out(<<Finding(WARNING, "Index", "more files than exist")>>,
                     <<AutoFix(<<"Rebuild KB index (orphaned entries)", 0>>,
                               "kbUpdate")>>)

\* Check 3: directory compliance
checkDirectoryCompliance(s) ==
    IF s.badDirs = 0
    THEN Out(<<Finding(OK, "Structure", "standard")>>, <<>>)
    ELSE Out(<<Finding(WARNING, "Structure", "non-standard directories")>>, <<>>)

\* the files a content-risk pattern of the given severity is recorded for,
\* out of the files the deep scan reads
DeepHits(files, severity) ==
    {f \in files : ~f.tool /\ ~f.allowed /\ ~f.daily /\ severity \in f.deep}

checkSecretsDeepAll(s) ==
    LET secretHits == {f \in s.scanned : ~f.tool /\ f.secret}
        criticalDeep == DeepHits(s.scanned, "HIGH")
        mediumDeep == DeepHits(s.scanned, "MEDIUM")
    IN Out(<<IF secretHits = {}
             THEN Finding(OK, "Security", "no secrets")
             ELSE FindingWith(CRITICAL, "Security", "potential secrets",
                              <<secretHits>>)>>
           \o (IF criticalDeep \cup mediumDeep = {}
               THEN <<Finding(OK, "Security-Deep", "clean")>>
               ELSE (IF criticalDeep # {}
                     THEN <<FindingWith(CRITICAL, "Security-Deep", "high",
                                        <<criticalDeep>>)>> ELSE <<>>)
                    \o (IF mediumDeep # {}
                        THEN <<FindingWith(WARNING, "Security-Deep", "medium",
                                           <<mediumDeep>>)>> ELSE <<>>)),
           <<>>)

\* Check 4: secrets, then the deep scan of the recently changed files.  The
\* details of a finding are the files its hits were recorded for.
checkSecrets(s) ==
    LET secretHits == {f \in s.scanned : ~f.tool /\ f.secret}
        recentFiles == {f \in s.scanned : f.recent}
        criticalDeep == DeepHits(recentFiles, "HIGH")
        mediumDeep == DeepHits(recentFiles, "MEDIUM")
    IN Out(<<IF secretHits = {}
             THEN Finding(OK, "Security", "no secrets")
             ELSE FindingWith(CRITICAL, "Security", "potential secrets",
                              <<secretHits>>)>>
           \o (IF criticalDeep \cup mediumDeep = {}
               THEN <<Finding(OK, "Security-Deep", "clean")>>
               ELSE (IF criticalDeep # {}
                     THEN <<FindingWith(CRITICAL, "Security-Deep", "high",
                                        <<criticalDeep>>)>> ELSE <<>>)
                    \o (IF mediumDeep # {}
                        THEN <<FindingWith(WARNING, "Security-Deep", "medium",
                                           <<mediumDeep>>)>> ELSE <<>>)),
           <<>>)

\* Check 5: script version sprawl
checkVersionSprawl(s) ==
    IF s.sprawl = 0
    THEN Out(<<Finding(OK, "Scripts", "no sprawl")>>, <<>>)
    ELSE Out(<<Finding(WARNING, "Scripts", "multiple versions")>>, <<>>)

\* Check 6: memory bloat
checkMemoryBloat(s) ==
    IF s.memSize > 10 * MB
    THEN Out(<<Finding(WARNING, "Memory", "consider curating")>>, <<>>)
    ELSE Out(<<Finding(OK, "Memory", "size")>>, <<>>)

\* Check 7: growth tracking; its return value is the run's stats
GrowthStats(s) ==
    [ kbFiles |-> s.kbFiles, kbSizeMB |-> ToFixed1(s.kbSize),
      memFiles |-> s.memFiles, memSizeMB |-> ToFixed1(s.memSize),
      scriptFiles |-> s.scriptFiles ]

\* prevReports: the audit-*.md files in the reports directory, whose number
\* goes into the finding's details ("Previous audits: n")
checkGrowthTrends(s, prevReports) ==
    Out(<<FindingWith(INFO, "Growth", "stats", <<prevReports>>)>>, <<>>)

\* Check 8: orphan detection
checkOrphans(s) ==
    IF s.filesIndex # "ok"
    THEN Out(<<>>, <<>>)
    ELSE IF s.orphans = 0
    THEN Out(<<Finding(OK, "Orphans", "all indexed")>>, <<>>)
    ELSE Out(<<Finding(WARNING, "Orphans", "not in index")>>, <<>>)

\* Check 9: git health
checkGitHealth(s) ==
    Out(<<IF s.uncommitted = 0
          THEN Finding(OK, "Git", "clean")
          ELSE Finding(WARNING, "Git", "uncommitted")>>
        \o (IF s.behind > 0 THEN <<Finding(WARNING, "Git", "behind")>> ELSE <<>>)
        \o (IF s.ahead > 0 THEN <<Finding(INFO, "Git", "ahead")>> ELSE <<>>),
        <<>>)

checkNamingConventionsRenames(s) ==
    IF s.naming = 0
    THEN Out(<<Finding(OK, "Naming", "conventions")>>, <<>>)
    ELSE Out(<<Finding(WARNING, "Naming", "violations")>>,
             <<AutoFix(<<"Rename files", s.naming>>, "kbUpdate")>>)

\* Check 10: filename conventions
checkNamingConventions(s) ==
    IF s.naming = 0
    THEN Out(<<Finding(OK, "Naming", "conventions")>>, <<>>)
    ELSE Out(<<Finding(WARNING, "Naming", "violations")>>, <<>>)

\* Check 11: tag quality
checkTagQuality(s) ==
    IF s.tagIssues = 0
    THEN Out(<<Finding(OK, "Tag Quality", "good")>>, <<>>)
    ELSE Out(<<Finding(WARNING, "Tag Quality", "issues")>>, <<>>)

\* Check 12: memory curation
checkMemoryCuration(s) ==
    IF s.memIssues = 0
    THEN Out(<<Finding(OK, "Memory Quality", "well-curated")>>, <<>>)
    ELSE Out(<<Finding(WARNING, "Memory Quality", "issues")>>, <<>>)

\* Check 13: index search coverage
checkSearchCoverage(s) ==
    IF "absent" \in {s.filesIndex, s.topicsIndex, s.keywordsIndex}
    THEN Out(<<Finding(INFO, "Search Coverage", "index files missing")>>, <<>>)
    ELSE IF "corrupt" \in {s.filesIndex, s.topicsIndex, s.keywordsIndex}
    THEN Out(<<Finding(INFO, "Search Coverage", "index files corrupted")>>, <<>>)
    ELSE IF s.unreachable = 0 /\ ~s.keywordOnlyMany
    THEN Out(<<Finding(OK, "Search Coverage", "searchable")>>, <<>>)
    ELSE IF s.unreachable > 0
    THEN Out(<<Finding(WARNING, "Search Coverage", "unsearchable")>>, <<>>)
    ELSE Out(<<Finding(INFO, "Search Coverage", "keyword only")>>, <<>>)

\* jobs.filter(...), as the set of the positions kept
circuitOpenJobs(jobs) == {k \in DOMAIN jobs : jobs[k].circuitOpen}

failedJobs(jobs) == {k \in DOMAIN jobs : jobs[k].status = "failed"}

overdueJobs(jobs) == {k \in DOMAIN jobs : jobs[k].status = "overdue"}

checkCronHealthNoReturn(s) ==
    IF s.cron = "absent"
    THEN Out(<<Finding(INFO, "Cron Health", "no report")>>, <<>>)
    ELSE IF s.cron = "corrupt"
    THEN Out(<<Finding(WARNING, "Cron Health", "failed to parse")>>, <<>>)
    ELSE LET open == circuitOpenJobs(s.jobs) # {}
             failed == failedJobs(s.jobs) # {}
             overdue == overdueJobs(s.jobs) # {}
         IN Out((IF open THEN <<Finding(CRITICAL, "Cron Health",
                                        "circuit breakers open")>> ELSE <<>>)
                \o (IF failed THEN <<Finding(WARNING, "Cron Health", "failed")>>
                    ELSE <<>>)
                \o (IF overdue THEN <<Finding(WARNING, "Cron Health", "overdue")>>
                    ELSE <<>>)
                \o (IF ~open /\ ~failed /\ ~overdue
                    THEN <<Finding(OK, "Cron Health", "healthy")>> ELSE <<>>),
                <<>>)

\* Check 14: cron health
checkCronHealth(s) ==
    IF s.cron = "absent"
    THEN Out(<<Finding(INFO, "Cron Health", "no report")>>, <<>>)
    ELSE IF s.cron = "corrupt"
    THEN Out(<<Finding(WARNING, "Cron Health", "failed to parse")>>, <<>>)
    ELSE IF circuitOpenJobs(s.jobs) # {}
    THEN Out(<<Finding(CRITICAL, "Cron Health", "circuit breakers open")>>, <<>>)
    ELSE IF failedJobs(s.jobs) # {}
    THEN Out(<<Finding(WARNING, "Cron Health", "failed")>>, <<>>)
    ELSE IF overdueJobs(s.jobs) # {}
    THEN Out(<<Finding(WARNING, "Cron Health", "overdue")>>, <<>>)
    ELSE Out(<<Finding(OK, "Cron Health", "healthy")>>, <<>>)

\* ------------------------------------------------------------------ grade
\* generateReport: the letter the report's grade line starts with
ReportGrade(criticals, warnings) ==
    IF criticals > 0 THEN "F"
    ELSE IF warnings > 3 THEN "C"
    ELSE IF warnings > 0 THEN "B"
    ELSE "A"

TrendGradeAtLeast3(criticals, warnings) ==
    IF criticals > 0 THEN "F"
    ELSE IF warnings >= 3 THEN "C"
    ELSE IF warnings > 0 THEN "B"
    ELSE "A"

\* recordTrend: the grade stored in the day's entry
TrendGrade(criticals, warnings) ==
    IF criticals > 0 THEN "F"
    ELSE IF warnings > 3 THEN "C"
    ELSE IF warnings > 0 THEN "B"
    ELSE "A"

\* main: the letter the grade handed to sendTelegramAlert starts with
AlertGrade(criticals, warnings) ==
    IF criticals > 0 THEN "F"
    ELSE IF warnings > 3 THEN "C"
    ELSE IF warnings > 0 THEN "B"
    ELSE "A"

\* ---------------------------------------------------------------- numbers
(* The sizes in a trend entry are JavaScript Numbers: parseFloat of a      *)
(* one-decimal string.  A positive Number is kept as its binary exponent   *)
(* and its 53 significand bits, most significant first; zero has no bits.  *)
SignificandBits == 53

RECURSIVE BinaryDigits(_)
BinaryDigits(n) == IF n = 0 THEN <<>> ELSE Append(BinaryDigits(n \div 2), n % 2)

\* a + b of two equally long bit strings, one bit longer: the carry into a
\* position is generated below it and propagated up to it
AddBits(a, b) ==
    LET n == Len(a)
        carry(i) == \E j \in (i + 1)..n :
                       /\ a[j] = 1 /\ b[j] = 1
                       /\ \A k \in (i + 1)..(j - 1) : a[k] + b[k] >= 1
    IN [i \in 1..(n + 1) |->
          IF i = 1 THEN (IF carry(0) THEN 1 ELSE 0)
          ELSE (a[i - 1] + b[i - 1] + (IF carry(i - 1) THEN 1 ELSE 0)) % 2]

\* Round to nearest, ties to even: bits (the first of weight 2^exp, leading
\* zeros allowed) followed by a nonzero tail iff sticky.
RoundToDouble(bits, exp, sticky) ==
    IF \A i \in DOMAIN bits : bits[i] = 0 THEN [exp |-> 0, man |-> <<>>]
    ELSE LET n == SignificandBits
             lead == CHOOSE i \in DOMAIN bits :
                        bits[i] = 1 /\ \A j \in 1..(i - 1) : bits[j] = 0
             bit(i) == IF lead - 1 + i <= Len(bits) THEN bits[lead - 1 + i] ELSE 0
             man == [i \in 1..n |-> bit(i)]
             rest == sticky \/ \E i \in (lead + n + 1)..Len(bits) : bits[i] = 1
             up == bit(n + 1) = 1 /\ (rest \/ bit(n) = 1)
             inc == AddBits(man, [i \in 1..n |-> IF i = n THEN 1 ELSE 0])
         IN IF ~up THEN [exp |-> exp - (lead - 1), man |-> man]
            ELSE IF inc[1] = 1
            THEN [exp |-> exp - (lead - 1) + 1, man |-> SubSeq(inc, 1, n)]
            ELSE [exp |-> exp - (lead - 1), man |-> Tail(inc)]

\* 2^k mod 10
TwoToThe(k) == IF k = 0 THEN 1 ELSE <<2, 4, 8, 6>>[((k - 1) % 4) + 1]

\* parseFloat of the decimal string of tenths / 10: the integer part's bits,
\* then fraction bits by long division, then rounded
parseFloat(tenths) ==
    LET int == BinaryDigits(tenths \div 10)
        r == tenths % 10
        digits == SignificandBits + 5
        frac == [k \in 1..digits |-> (2 * ((r * TwoToThe(k - 1)) % 10)) \div 10]
        left == (r * TwoToThe(digits)) % 10
    IN RoundToDouble(int \o frac, Len(int) - 1, left # 0)

\* x * 1.5 = (2m + m) * 2^(exp - 53), rounded
TimesOneAndAHalf(x) ==
    IF x.man = <<>> THEN x
    ELSE RoundToDouble(AddBits(Append(x.man, 0), <<0>> \o x.man), x.exp + 1, FALSE)

\* x > y
Greater(x, y) ==
    IF x.man = <<>> THEN FALSE
    ELSE IF y.man = <<>> THEN TRUE
    ELSE \/ x.exp > y.exp
         \/ /\ x.exp = y.exp
            /\ \E i \in DOMAIN x.man :
                  /\ x.man[i] = 1 /\ y.man[i] = 0
                  /\ \A j \in 1..(i - 1) : x.man[j] = y.man[j]

\* ------------------------------------------------------------ trend store
NoFile == [kind |-> "absent", entries |-> <<>>]

loadTrendsNoCatch(file) ==
    [hasEntries |-> file.kind = "ok", entries |-> file.entries]

\* loadTrends: a missing or unparseable file reads as { entries: [] }; a file
\* holding other JSON is returned as parsed, with or without an entries array
loadTrends(file) ==
    IF file.kind \in {"absent", "corrupt"}
    THEN [hasEntries |-> TRUE, entries |-> <<>>]
    ELSE [hasEntries |-> file.kind = "ok", entries |-> file.entries]

TrendEntry(date, stats, criticals, warnings) ==
    [ date |-> date,
      kbFiles |-> stats.kbFiles, kbSizeMB |-> stats.kbSizeMB,
      memFiles |-> stats.memFiles, memSizeMB |-> stats.memSizeMB,
      scriptFiles |-> stats.scriptFiles,
      criticals |-> criticals, warnings |-> warnings,
      grade |-> TrendGrade(criticals, warnings) ]

UpsertPush(entries, e) == Append(entries, e)

\* recordTrend, "Don't double-record the same day": replace the last entry
\* when it carries today's date, else push
Upsert(entries, e) ==
    IF Len(entries) > 0 /\ entries[Len(entries)].date = e.date
    THEN [entries EXCEPT ![Len(entries)] = e]
    ELSE Append(entries, e)

KeepFirst(entries) ==
    IF Len(entries) > KeepDays THEN SubSeq(entries, 1, KeepDays) ELSE entries

\* recordTrend, "Keep last 90 days": entries.slice(-90)
KeepLast(entries) ==
    IF Len(entries) > KeepDays
    THEN SubSeq(entries, Len(entries) - KeepDays + 1, Len(entries))
    ELSE entries

\* recordTrend: the entries it saves
recordTrend(entries, date, stats, criticals, warnings) ==
    KeepLast(Upsert(entries, TrendEntry(date, stats, criticals, warnings)))

\* --------------------------------------------------------- trend analysis
LastN(entries, n) ==
    IF Len(entries) > n THEN SubSeq(entries, Len(entries) - n + 1, Len(entries))
    ELSE entries

NoAnalysis ==
    [ analysed |-> FALSE, kbFilesDelta |-> 0, memFilesDelta |-> 0,
      scriptsDelta |-> 0, gradeChange |-> <<>>, regressions |-> <<>>,
      week |-> <<>> ]

\* curr.memSizeMB > prev.memSizeMB * 1.5 && curr.memSizeMB > 5, on Numbers
MemoryBloat(prev, curr) ==
    /\ Greater(parseFloat(curr.memSizeMB), TimesOneAndAHalf(parseFloat(prev.memSizeMB)))
    /\ curr.memSizeMB > 50

\* analyzeTrends: null with fewer than two entries, else the deltas between
\* the last two entries and the regressions, in the order they are pushed
\* (the two size deltas, which are only printed, are left out)
analyzeTrends(entries) ==
    IF Len(entries) < 2 THEN NoAnalysis
    ELSE LET prev == entries[Len(entries) - 1]
             curr == entries[Len(entries)]
         IN [ analysed |-> TRUE,
              kbFilesDelta |-> curr.kbFiles - prev.kbFiles,
              memFilesDelta |-> curr.memFiles - prev.memFiles,
              scriptsDelta |-> curr.scriptFiles - prev.scriptFiles,
              gradeChange |-> IF prev.grade # curr.grade
                              THEN <<prev.grade, curr.grade>> ELSE <<>>,
              regressions |->
                  (IF curr.criticals > prev.criticals
                   THEN <<"Criticals increased">> ELSE <<>>)
                  \o (IF curr.warnings > prev.warnings + 2
                      THEN <<"Warnings spiked">> ELSE <<>>)
                  \o (IF MemoryBloat(prev, curr) THEN <<"Memory bloat">> ELSE <<>>),
              week |-> IF Len(entries) >= 7
                       THEN LET weekAgo == entries[Len(entries) - 6]
                            IN <<curr.kbFiles - weekAgo.kbFiles,
                                 curr.memFiles - weekAgo.memFiles>>
                       ELSE <<>> ]

RECURSIVE SumWarnings(_)
SumWarnings(entries) ==
    IF entries = <<>> THEN 0 ELSE Head(entries).warnings + SumWarnings(Tail(entries))

detectRecurringIssuesWholeStore(entries) ==
    IF Len(entries) < 3 THEN <<>>
    ELSE LET recent == entries
             criticalDays == Cardinality({i \in DOMAIN recent : recent[i].criticals > 0})
             gradeChanges == Cardinality({i \in 2..Len(recent) :
                                             recent[i].grade # recent[i - 1].grade})
             weekGrowth == recent[Len(recent)].kbFiles - recent[1].kbFiles
         IN (IF criticalDays >= 2 THEN <<[kind |-> "criticals", n |-> criticalDays]>>
             ELSE <<>>)
            \o (IF gradeChanges >= 3 THEN <<[kind |-> "unstable", n |-> gradeChanges]>>
                ELSE <<>>)
            \o (IF SumWarnings(recent) > 3 * Len(recent)
                THEN <<[kind |-> "chronic", n |-> SumWarnings(recent)]>> ELSE <<>>)
            \o (IF Len(recent) >= 5 /\ weekGrowth > 100
                THEN <<[kind |-> "growth", n |-> weekGrowth]>> ELSE <<>>)

\* detectRecurringIssues: the items pushed, each with the number it reports
detectRecurringIssues(entries) ==
    IF Len(entries) < 3 THEN <<>>
    ELSE LET recent == LastN(entries, RecentDays)
             criticalDays == Cardinality({i \in DOMAIN recent : recent[i].criticals > 0})
             gradeChanges == Cardinality({i \in 2..Len(recent) :
                                             recent[i].grade # recent[i - 1].grade})
             weekGrowth == recent[Len(recent)].kbFiles - recent[1].kbFiles
         IN (IF criticalDays >= 2 THEN <<[kind |-> "criticals", n |-> criticalDays]>>
             ELSE <<>>)
            \o (IF gradeChanges >= 3 THEN <<[kind |-> "unstable", n |-> gradeChanges]>>
                ELSE <<>>)
            \o (IF SumWarnings(recent) > 3 * Len(recent)
                THEN <<[kind |-> "chronic", n |-> SumWarnings(recent)]>> ELSE <<>>)
            \o (IF Len(recent) >= 5 /\ weekGrowth > 100
                THEN <<[kind |-> "growth", n |-> weekGrowth]>> ELSE <<>>)

NoReview ==
    [ present |-> FALSE, from |-> 0, to |-> 0, kbFilesDelta |-> 0,
      memFilesDelta |-> 0, scriptsDelta |-> 0, bestDay |-> 0, worstDay |-> 0,
      scriptFlag |-> FALSE, staleFiles |-> 0 ]

Issues(e) == e.criticals + e.warnings

\* weekEntries.reduce((a, b) => issues(a) <= issues(b) ? a : b), and with >=
RECURSIVE BestOf(_)
BestOf(es) ==
    IF Len(es) = 1 THEN es[1]
    ELSE LET a == BestOf(SubSeq(es, 1, Len(es) - 1))
             b == es[Len(es)]
         IN IF Issues(a) <= Issues(b) THEN a ELSE b

RECURSIVE WorstOf(_)
WorstOf(es) ==
    IF Len(es) = 1 THEN es[1]
    ELSE LET a == WorstOf(SubSeq(es, 1, Len(es) - 1))
             b == es[Len(es)]
         IN IF Issues(a) >= Issues(b) THEN a ELSE b

\* generateWeeklyReview: dayOfWeek is new Date().getDay() when it is called,
\* staleFiles the number of knowledge files not modified for 30 days
generateWeeklyReview(entries, dayOfWeek, staleFiles) ==
    IF dayOfWeek # Friday THEN NoReview
    ELSE LET weekEntries == LastN(entries, WeekDays)
         IN IF Len(weekEntries) < 2 THEN NoReview
            ELSE LET first == weekEntries[1]
                     last == weekEntries[Len(weekEntries)]
                 IN [ present |-> TRUE, from |-> first.date, to |-> last.date,
                      kbFilesDelta |-> last.kbFiles - first.kbFiles,
                      memFilesDelta |-> last.memFiles - first.memFiles,
                      scriptsDelta |-> last.scriptFiles - first.scriptFiles,
                      bestDay |-> BestOf(weekEntries).date,
                      worstDay |-> WorstOf(weekEntries).date,
                      scriptFlag |-> last.scriptFiles - first.scriptFiles > 5,
                      staleFiles |-> staleFiles ]

\* The day of the week of a day number: day 1 is a Friday.
DayOfWeek(d) == (d + 4) % 7

\* --------------------------------------------------------------- auto-fix
DedupNone(queue) == queue

\* runAutoFixes: keep the first queued fix of each description
Dedup(queue) ==
    LET RECURSIVE Go(_, _, _)
        Go(i, seen, acc) ==
            IF i > Len(queue) THEN acc
            ELSE IF queue[i].description \in seen THEN Go(i + 1, seen, acc)
            ELSE Go(i + 1, seen \cup {queue[i].description}, Append(acc, queue[i]))
    IN Go(1, {}, <<>>)

\* ------------------------------------------------------------------ state
VARIABLES
    pc,           \* where the invocation stands in main
    runs,         \* invocations started so far
    today,        \* TODAY, read from the process clock at load time
    fixMode,      \* FIX_MODE: --fix was given
    repoExists,   \* fs.existsSync(EDGE_REPO)
    kbExists,     \* fs.existsSync(KNOWLEDGE_DIR)
    snap,         \* the repository snapshot the checks see
    findings,     \* the findings array
    autoFixes,    \* the autoFixes array
    ci,           \* the next check main calls, 1..14
    fileCount,    \* main's fileCount, checkFrontmatter's return value
    stats,        \* checkGrowthTrends' return value
    unique,       \* runAutoFixes: the deduplicated queue
    fi,           \* runAutoFixes: index of the next unique fix
    fixed,        \* runAutoFixes: its counter
    executed,     \* the fixes whose action was called, in call order
    treeChanged,  \* a fix action changed the repository's working tree
    gitCmds,      \* the git subcommands issued against the repository
    fixCount,     \* main's fixCount
    trendsFile,   \* reports/trends.json
    report,       \* main: the sections appended to the report being built
    reports,      \* reports/audit-<date>.md, by date: the file's header
    previous,     \* history: the findings of the invocation before, when
                  \* this one re-runs it (same date and repository, no --fix)
    alert,        \* the credentials sendTelegramAlert found, and its POST
    exitCode,     \* the process exit code, -1 while running
    uncaught,     \* the function an uncaught exception escaped from
    scan,         \* a call of getAllFiles: its root, the tree and its result
    retry,        \* iqfeed-bridge.js: a call of iqfeedQueryWithRetry
    tunnel        \* start-tunnel.js: its processes and timers

vars == << pc, runs, today, fixMode, repoExists, kbExists, snap, findings,
           autoFixes, ci, fileCount, stats, unique, fi, fixed, executed,
           treeChanged, gitCmds, fixCount, trendsFile, report, reports, previous, alert,
           exitCode, uncaught, scan, retry, tunnel >>

run == << today, fixMode, repoExists, kbExists, snap >>
fixState == << unique, fi, fixed, executed, treeChanged, fixCount >>
files == << trendsFile, reports >>
auditVars == << pc, runs, run, findings, autoFixes, ci, fileCount, stats, fixState,
               gitCmds, files, report, previous, alert, exitCode, uncaught >>
others == << scan, retry, tunnel >>

NoScan == [pc |-> "none", rootExists |-> FALSE, tree |-> <<>>, files |-> <<>>]

\* iqfeedQueryWithRetry's frame: pc, where it stands; maxRetries, attempt and
\* lastErr, its variables; sock, the socket of the attempt under way;
\* attempts, errors and waits, the history of the calls of iqfeedQuery, of
\* their rejections and of the delays slept; result, the value returned or
\* the error thrown.
\* start-tunnel.js: procs, the tunnel processes spawned so far, each with its
\* state, whether handleOutput captured its URL, its 5 s updateRepo timer,
\* its 60 s grace timer and its health-check interval; restart, the 10 s
\* timer of the 'exit' handler; updatedDead and checkedDead, history: a
\* repository update was started, or a health check issued, for the URL of a
\* process that had exited.
NoTunnel == [procs |-> <<>>, restart |-> "none", updatedDead |-> FALSE,
             checkedDead |-> FALSE]

NoRetry == [pc |-> "none", maxRetries |-> 0, attempt |-> 0, lastErr |-> <<>>,
            sock |-> "none", attempts |-> 0, errors |-> <<>>, waits |-> <<>>,
            result |-> <<>>]

NoStats == [kbFiles |-> 0, kbSizeMB |-> 0, memFiles |-> 0, memSizeMB |-> 0,
            scriptFiles |-> 0]
NoReport == [written |-> FALSE, grade |-> "-", criticals |-> 0, warnings |-> 0,
             fixCount |-> 0]
NoSections == [trends |-> NoAnalysis, recurring |-> <<>>, weekly |-> NoReview]
NoAlert == [creds |-> "unread", posted |-> FALSE, grade |-> "-",
            delivered |-> FALSE]

NoPrevious == [rerun |-> FALSE, findings |-> <<>>]

\* readdirSync(REPORT_DIR) filtered to audit-*.md: the reports of the days
\* of Dates (those of earlier days are a fixed number more)
PrevReports == Cardinality({d \in Dates : reports[d].written})

CheckName(i) ==
    << "checkFrontmatter", "checkIndexFreshness", "checkDirectoryCompliance",
       "checkSecrets", "checkVersionSprawl", "checkMemoryBloat",
       "checkGrowthTrends", "checkOrphans", "checkGitHealth",
       "checkNamingConventions", "checkTagQuality", "checkMemoryCuration",
       "checkSearchCoverage", "checkCronHealth" >>[i]

criticalFindings == CountSev(findings, CRITICAL)
warningFindings == CountSev(findings, WARNING)

\* A fresh process: the module-level arrays are empty, nothing has run.
Fresh ==
    /\ findings = <<>> /\ autoFixes = <<>> /\ ci = 0 /\ fileCount = 0
    /\ stats = NoStats
    /\ unique = <<>> /\ fi = 0 /\ fixed = 0 /\ executed = <<>>
    /\ treeChanged = FALSE /\ gitCmds = {} /\ fixCount = 0
    /\ alert = NoAlert /\ exitCode = -1 /\ uncaught = "none"
    /\ report = NoSections

Init ==
    /\ pc = "idle" /\ runs = 0
    /\ today = 1 /\ fixMode = FALSE /\ repoExists = TRUE /\ kbExists = TRUE
    /\ snap = Clean
    /\ Fresh
    /\ trendsFile = NoFile
    /\ reports = [d \in Dates |-> NoReport]
    /\ previous = NoPrevious
    /\ scan = NoScan
    /\ retry = NoRetry
    /\ tunnel = NoTunnel

\* An exception nothing catches: node prints it and exits with code 1.
Uncaught(fn) ==
    /\ pc' = "done" /\ exitCode' = 1 /\ uncaught' = fn

\* --------------------------------------------------------------- actions
\* The scheduler starts the script: the config constants are evaluated.
StartRun ==
    /\ pc \in {"idle", "done"} /\ runs < MaxRuns
    /\ runs' = runs + 1
    /\ pc' = "main"
    /\ today' \in Dates
    /\ fixMode' \in BOOLEAN
    /\ repoExists' \in BOOLEAN
    /\ kbExists' \in (IF repoExists' THEN BOOLEAN ELSE {FALSE})
    /\ snap' \in (IF kbExists' THEN Snapshots ELSE {Clean})
    /\ findings' = <<>> /\ autoFixes' = <<>> /\ ci' = 0 /\ fileCount' = 0
    /\ stats' = NoStats
    /\ unique' = <<>> /\ fi' = 0 /\ fixed' = 0 /\ executed' = <<>>
    /\ treeChanged' = FALSE /\ gitCmds' = {} /\ fixCount' = 0
    /\ alert' = NoAlert /\ exitCode' = -1 /\ uncaught' = "none"
    /\ report' = NoSections
    /\ previous' = IF /\ pc = "done" /\ exitCode \in {0, 2}
                      /\ today' = today /\ snap' = snap /\ ~fixMode /\ ~fixMode'
                   THEN [rerun |-> TRUE, findings |-> findings]
                   ELSE NoPrevious
    /\ UNCHANGED << files, others >>

PreflightRepoOnly ==
    /\ pc = "main"
    /\ IF ~repoExists
       THEN /\ pc' = "done" /\ exitCode' = 1
            /\ UNCHANGED << gitCmds, ci >>
       ELSE /\ gitCmds' = gitCmds \cup {"pull"}
            /\ pc' = "checks" /\ ci' = 1
            /\ UNCHANGED exitCode
    /\ UNCHANGED << others, runs, previous, run, findings, autoFixes, fileCount, stats, fixState, files,
                    alert, report, uncaught >>

\* main, up to the first check: the fatal preconditions, then git pull
Preflight ==
    /\ pc = "main"
    /\ IF ~repoExists \/ ~kbExists
       THEN /\ pc' = "done" /\ exitCode' = 1
            /\ UNCHANGED << gitCmds, ci >>
       ELSE /\ gitCmds' = gitCmds \cup {"pull"}
            /\ pc' = "checks" /\ ci' = 1
            /\ UNCHANGED exitCode
    /\ UNCHANGED << others, runs, previous, run, findings, autoFixes, fileCount, stats, fixState, files,
                    alert, report, uncaught >>

\* main calling the i-th check, which pushes out's findings and fixes; fc and
\* st are main's fileCount and stats after the call
RunCheck(i, out, fc, st, cmds) ==
    /\ pc = "checks" /\ ci = i
    /\ IF snap.raises = i
       THEN /\ Uncaught(CheckName(i))
            /\ UNCHANGED << findings, autoFixes, ci, fileCount, stats, gitCmds >>
       ELSE /\ findings' = findings \o out.findings
            /\ autoFixes' = autoFixes \o out.fixes
            /\ fileCount' = fc /\ stats' = st
            /\ gitCmds' = gitCmds \cup cmds
            /\ ci' = i + 1
            /\ pc' = IF i = NumChecks THEN "fix" ELSE "checks"
            /\ UNCHANGED << exitCode, uncaught >>
    /\ UNCHANGED << others, runs, previous, run, fixState, files, alert, report >>

Check1 == RunCheck(1, checkFrontmatter(snap), snap.kbFiles, stats, {})
Check2 == RunCheck(2, checkIndexFreshness(snap, fileCount), fileCount, stats, {})
Check3 == RunCheck(3, checkDirectoryCompliance(snap), fileCount, stats, {})
Check4 == RunCheck(4, checkSecrets(snap), fileCount, stats, {})
Check5 == RunCheck(5, checkVersionSprawl(snap), fileCount, stats, {})
Check6 == RunCheck(6, checkMemoryBloat(snap), fileCount, stats, {})
Check7 == RunCheck(7, checkGrowthTrends(snap, PrevReports), fileCount, GrowthStats(snap), {})
Check8 == RunCheck(8, checkOrphans(snap), fileCount, stats, {})
Check9 == RunCheck(9, checkGitHealth(snap), fileCount, stats, {"status", "fetch", "rev-list"})
Check10 == RunCheck(10, checkNamingConventions(snap), fileCount, stats, {})
Check11 == RunCheck(11, checkTagQuality(snap), fileCount, stats, {})
Check12 == RunCheck(12, checkMemoryCuration(snap), fileCount, stats, {})
Check13 == RunCheck(13, checkSearchCoverage(snap), fileCount, stats, {})
Check14 == RunCheck(14, checkCronHealth(snap), fileCount, stats, {})

BeginAutoFixesAlways ==
    /\ pc = "fix"
    /\ IF autoFixes # <<>>
       THEN /\ unique' = Dedup(autoFixes)
            /\ fi' = 1 /\ fixed' = 0
            /\ pc' = "fixloop"
       ELSE /\ pc' = "trend"
            /\ UNCHANGED << unique, fi, fixed >>
    /\ UNCHANGED << others, runs, previous, run, findings, autoFixes, ci, fileCount, stats, executed,
                    treeChanged, gitCmds, fixCount, files, alert, report, exitCode,
                    uncaught >>

\* main: "if (FIX_MODE) fixCount = runAutoFixes()", up to the loop
BeginAutoFixes ==
    /\ pc = "fix"
    /\ IF fixMode /\ autoFixes # <<>>
       THEN /\ unique' = Dedup(autoFixes)
            /\ fi' = 1 /\ fixed' = 0
            /\ pc' = "fixloop"
       ELSE /\ pc' = "trend"
            /\ UNCHANGED << unique, fi, fixed >>
    /\ UNCHANGED << others, runs, previous, run, findings, autoFixes, ci, fileCount, stats, executed,
                    treeChanged, gitCmds, fixCount, files, alert, report, exitCode,
                    uncaught >>

ExecFixNoCatch ==
    /\ pc = "fixloop" /\ fi <= Len(unique)
    /\ executed' = Append(executed, unique[fi])
    /\ IF unique[fi].action = "throws"
       THEN /\ Uncaught("runAutoFixes")
            /\ UNCHANGED << fixed, treeChanged, fi >>
       ELSE /\ fixed' = fixed + 1
            /\ \E wrote \in (IF snap.kbUpdateExists THEN BOOLEAN ELSE {FALSE}) :
                   treeChanged' = (treeChanged \/ wrote)
            /\ fi' = fi + 1
            /\ pc' = IF fi = Len(unique) THEN "commit" ELSE "fixloop"
            /\ UNCHANGED << exitCode, uncaught >>
    /\ UNCHANGED << others, runs, previous, run, findings, autoFixes, ci, fileCount, stats, unique, gitCmds,
                    fixCount, files, alert, report >>

ExecFixRescans ==
    /\ pc = "fixloop" /\ fi <= Len(unique)
    /\ executed' = Append(executed, unique[fi])
    /\ IF unique[fi].action = "throws"
       THEN UNCHANGED << fixed, treeChanged, findings >>
       ELSE /\ fixed' = fixed + 1
            /\ findings' = findings \o checkFrontmatter(snap).findings
            /\ \E wrote \in (IF snap.kbUpdateExists THEN BOOLEAN ELSE {FALSE}) :
                   treeChanged' = (treeChanged \/ wrote)
    /\ fi' = fi + 1
    /\ pc' = IF fi = Len(unique) THEN "commit" ELSE "fixloop"
    /\ UNCHANGED << others, runs, previous, run, autoFixes, ci, fileCount, stats,
                    unique, gitCmds, fixCount, files, alert, report, exitCode,
                    uncaught >>

\* runAutoFixes: one pass of "for (const fix of unique)".  The queued
\* kb-update action runs the index tool when it exists, which may rewrite
\* files; an action that throws is caught and not counted.
ExecFix ==
    /\ pc = "fixloop" /\ fi <= Len(unique)
    /\ executed' = Append(executed, unique[fi])
    /\ IF unique[fi].action = "throws"
       THEN UNCHANGED << fixed, treeChanged >>
       ELSE /\ fixed' = fixed + 1
            /\ \E wrote \in (IF snap.kbUpdateExists THEN BOOLEAN ELSE {FALSE}) :
                   treeChanged' = (treeChanged \/ wrote)
    /\ fi' = fi + 1
    /\ pc' = IF fi = Len(unique) THEN "commit" ELSE "fixloop"
    /\ UNCHANGED << others, runs, previous, run, findings, autoFixes, ci, fileCount, stats, unique, gitCmds,
                    fixCount, files, alert, report, exitCode, uncaught >>

\* runAutoFixes: "Commit auto-fixes to Edge repo if anything changed"
CommitFixes ==
    /\ pc = "commit"
    /\ gitCmds' = gitCmds
          \cup (IF fixed > 0 THEN {"status"} ELSE {})
          \cup (IF fixed > 0 /\ (snap.uncommitted > 0 \/ treeChanged)
                THEN {"add", "commit", "push"} ELSE {})
    /\ fixCount' = fixed
    /\ pc' = "trend"
    /\ UNCHANGED << others, runs, previous, run, findings, autoFixes, ci, fileCount, stats, unique, fi, fixed,
                    executed, treeChanged, files, alert, report, exitCode, uncaught >>

\* main: recordTrend(stats, criticals, warnings)
RecordTrend ==
    /\ pc = "trend"
    /\ LET trends == loadTrends(trendsFile)
       IN IF ~trends.hasEntries
          THEN /\ Uncaught("recordTrend")
               /\ UNCHANGED trendsFile
          ELSE /\ trendsFile' =
                     [kind |-> "ok",
                      entries |-> recordTrend(trends.entries, today, stats,
                                              criticalFindings, warningFindings)]
               /\ pc' = "report"
               /\ UNCHANGED << exitCode, uncaught >>
    /\ UNCHANGED << others, runs, previous, run, findings, autoFixes, ci, fileCount, stats, fixState, gitCmds,
                    reports, alert, report >>

WriteReportOneFile ==
    /\ pc = "report"
    /\ \E localDay \in {today - 1, today, today + 1} :
          report' = [trends |-> analyzeTrends(trendsFile.entries),
                     recurring |-> detectRecurringIssues(trendsFile.entries),
                     weekly |-> generateWeeklyReview(trendsFile.entries,
                                                     DayOfWeek(localDay),
                                                     snap.staleFiles)]
    /\ reports' = [reports EXCEPT ![1] =
                      [written |-> TRUE,
                       grade |-> ReportGrade(criticalFindings, warningFindings),
                       criticals |-> criticalFindings,
                       warnings |-> warningFindings,
                       fixCount |-> fixCount]]
    /\ pc' = "notify"
    /\ UNCHANGED << others, runs, previous, run, findings, autoFixes, ci, fileCount, stats, fixState, gitCmds,
                    trendsFile, alert, exitCode, uncaught >>

\* main: analyzeTrends, generateReport, the appended sections,
\* fs.writeFileSync(REPORT_PATH).  The local calendar day generateWeeklyReview
\* reads is the UTC day of TODAY or a neighbour of it.
WriteReport ==
    /\ pc = "report"
    /\ \E localDay \in {today - 1, today, today + 1} :
          report' = [trends |-> analyzeTrends(trendsFile.entries),
                     recurring |-> detectRecurringIssues(trendsFile.entries),
                     weekly |-> generateWeeklyReview(trendsFile.entries,
                                                     DayOfWeek(localDay),
                                                     snap.staleFiles)]
    /\ reports' = [reports EXCEPT ![today] =
                      [written |-> TRUE,
                       grade |-> ReportGrade(criticalFindings, warningFindings),
                       criticals |-> criticalFindings,
                       warnings |-> warningFindings,
                       fixCount |-> fixCount]]
    /\ pc' = "notify"
    /\ UNCHANGED << others, runs, previous, run, findings, autoFixes, ci, fileCount, stats, fixState, gitCmds,
                    trendsFile, alert, exitCode, uncaught >>

SendTelegramAlertNoGuard ==
    /\ pc = "notify"
    /\ \E creds \in {"absent", "unparseable", "incomplete", "ok"}, delivered \in BOOLEAN :
          IF creds = "unparseable"
          THEN /\ Uncaught("sendTelegramAlert")
               /\ alert' = [alert EXCEPT !.creds = creds]
               /\ UNCHANGED gitCmds
          ELSE /\ IF creds \in {"ok", "incomplete"}
                  THEN /\ alert' = [creds |-> creds, posted |-> TRUE,
                                    grade |-> AlertGrade(criticalFindings,
                                                         warningFindings),
                                    delivered |-> delivered]
                       /\ gitCmds' = gitCmds \cup {"log"}
                  ELSE /\ alert' = [alert EXCEPT !.creds = creds]
                       /\ UNCHANGED gitCmds
               /\ pc' = "exit"
               /\ UNCHANGED << exitCode, uncaught >>
    /\ UNCHANGED << others, runs, previous, run, findings, autoFixes, ci, fileCount, stats, fixState, files,
                    report >>

\* main: sendTelegramAlert(grade, ...), by what .credentials/telegram.json
\* is: absent, not JSON, JSON without bot_token or chat_id, or complete.  The
\* POST itself is inside try/catch and may fail to deliver.
SendTelegramAlert ==
    /\ pc = "notify"
    /\ \E creds \in {"absent", "unparseable", "incomplete", "ok"}, delivered \in BOOLEAN :
          IF creds = "unparseable"
          THEN /\ Uncaught("sendTelegramAlert")
               /\ alert' = [alert EXCEPT !.creds = creds]
               /\ UNCHANGED gitCmds
          ELSE /\ IF creds = "ok"
                  THEN /\ alert' = [creds |-> creds, posted |-> TRUE,
                                    grade |-> AlertGrade(criticalFindings,
                                                         warningFindings),
                                    delivered |-> delivered]
                       /\ gitCmds' = gitCmds \cup {"log"}
                  ELSE /\ alert' = [alert EXCEPT !.creds = creds]
                       /\ UNCHANGED gitCmds
               /\ pc' = "exit"
               /\ UNCHANGED << exitCode, uncaught >>
    /\ UNCHANGED << others, runs, previous, run, findings, autoFixes, ci, fileCount, stats, fixState, files,
                    report >>

\* main's end: process.exit(2) with criticals, else the script ends (code 0)
Exit ==
    /\ pc = "exit"
    /\ exitCode' = IF criticalFindings > 0 THEN 2 ELSE 0
    /\ pc' = "done"
    /\ UNCHANGED << others, runs, previous, run, findings, autoFixes, ci, fileCount, stats, fixState, gitCmds,
                    files, alert, report, uncaught >>

Next ==
    \/ StartRun \/ Preflight
    \/ Check1 \/ Check2 \/ Check3 \/ Check4 \/ Check5 \/ Check6 \/ Check7
    \/ Check8 \/ Check9 \/ Check10 \/ Check11 \/ Check12 \/ Check13 \/ Check14
    \/ BeginAutoFixes \/ ExecFix \/ CommitFixes
    \/ RecordTrend \/ WriteReport \/ SendTelegramAlert \/ Exit

Spec == Init /\ [][Next]_vars

\* ------------------------------------------- runAutoFixes on any queue
(* The checks queue each description at most once per run, so the queues   *)
(* main hands to runAutoFixes never repeat one.  SpecFix starts main at    *)
(* the auto-fix step, in fix mode, with every queue of at most MaxQueue    *)
(* fixes drawn from FixPool, descriptions repeated and actions throwing or *)
(* not.                                                                    *)
FixPool ==
    { AutoFix(<<d, 0>>, a) :
        d \in {"Rebuild KB index (stale)", "Rebuild KB index (orphaned entries)",
               "Tag untagged files + rebuild index"},
        a \in {"kbUpdate", "throws"} }

Queues == UNION { [1..n -> FixPool] : n \in 0..MaxQueue }

InitFix ==
    /\ pc = "fix" /\ runs = MaxRuns - 1
    /\ today = 1 /\ fixMode = TRUE /\ repoExists = TRUE /\ kbExists = TRUE
    /\ snap = Clean
    /\ findings = <<>> /\ autoFixes \in Queues /\ ci = NumChecks + 1
    /\ fileCount = Clean.kbFiles /\ stats = GrowthStats(Clean)
    /\ unique = <<>> /\ fi = 0 /\ fixed = 0 /\ executed = <<>>
    /\ treeChanged = FALSE /\ gitCmds = {"pull", "status", "fetch", "rev-list"}
    /\ fixCount = 0
    /\ alert = NoAlert /\ exitCode = -1 /\ uncaught = "none"
    /\ report = NoSections
    /\ trendsFile = NoFile
    /\ reports = [d \in Dates |-> NoReport]
    /\ previous = NoPrevious
    /\ scan = NoScan
    /\ retry = NoRetry
    /\ tunnel = NoTunnel

SpecFix == InitFix /\ [][Next]_vars

\* ------------------------------------------- a store left by earlier runs
(* SpecStore starts with the trend store a long series of clean daily runs *)
(* leaves behind: KeepDays - 1 or KeepDays entries, one per day, the last  *)
(* for day 0 or day 1, with the report of day 1 on disk when it ran, and   *)
(* follows the next two invocations.                                       *)
Prefilled(n, last) ==
    [k \in 1..n |-> TrendEntry(last - n + k, GrowthStats(Clean), 0, 0)]

CleanReport == [written |-> TRUE, grade |-> ReportGrade(0, 0), criticals |-> 0,
                warnings |-> 0, fixCount |-> 0]

InitStore ==
    /\ pc = "idle" /\ runs = MaxRuns - 2
    /\ today = 1 /\ fixMode = FALSE /\ repoExists = TRUE /\ kbExists = TRUE
    /\ snap = Clean
    /\ Fresh
    /\ \E n \in {KeepDays - 1, KeepDays}, last \in {0, 1} :
          /\ trendsFile = [kind |-> "ok", entries |-> Prefilled(n, last)]
          /\ reports = [d \in Dates |-> IF d <= last THEN CleanReport ELSE NoReport]
    /\ previous = NoPrevious
    /\ scan = NoScan
    /\ retry = NoRetry
    /\ tunnel = NoTunnel

SpecStore == InitStore /\ [][Next]_vars

\* --------------------------------------------- analysis of any trend store
(* SpecTrends starts one invocation on a trend store earlier runs left:    *)
(* up to two entries drawn from PairPool (the sizes and counts around the  *)
(* regression thresholds), ending the day before or on day 1, or three to  *)
(* MaxStore entries drawn from WeekPool, one per day up to the day before. *)
(* A store of up to two entries may have become unparseable since it was   *)
(* saved (kind "corrupt"; its entries are then what the text once held).   *)
Entry(criticals, warnings, memSizeMB, kbFiles) ==
    TrendEntry(0, [GrowthStats(Clean) EXCEPT !.memSizeMB = memSizeMB,
                                             !.kbFiles = kbFiles],
               criticals, warnings)

PairPool == { Entry(0, 0, 20, 10), Entry(1, 3, 73, 10), Entry(0, 4, 74, 10),
              Entry(0, 0, 38, 10) }

WeekPool == { Entry(0, 0, 20, 0), Entry(1, 6, 20, 1) }

Dated(entries, last) ==
    [k \in DOMAIN entries |-> [entries[k] EXCEPT !.date = last - Len(entries) + k]]

TrendStores ==
    { Dated(es, last) : es \in UNION { [1..n -> PairPool] : n \in 0..2 },
                        last \in {0, 1} }
    \cup { Dated(es, 0) : es \in UNION { [1..n -> WeekPool] : n \in 3..MaxStore } }

\* The report the run that recorded the last entry wrote.
ReportFor(entries) ==
    LET e == entries[Len(entries)]
    IN [ written |-> TRUE, grade |-> ReportGrade(e.criticals, e.warnings),
         criticals |-> e.criticals, warnings |-> e.warnings, fixCount |-> 0 ]

InitTrends ==
    /\ pc = "idle" /\ runs = MaxRuns - 1
    /\ today = 1 /\ fixMode = FALSE /\ repoExists = TRUE /\ kbExists = TRUE
    /\ snap = Clean
    /\ Fresh
    /\ \E es \in TrendStores :
          /\ trendsFile \in
                IF es = <<>> THEN {NoFile}
                ELSE {[kind |-> k, entries |-> es] :
                        k \in IF Len(es) <= 2 THEN {"ok", "corrupt"} ELSE {"ok"}}
          /\ reports = [d \in Dates |->
                          IF es # <<>> /\ es[Len(es)].date = d
                          THEN ReportFor(es) ELSE NoReport]
    /\ previous = NoPrevious
    /\ scan = NoScan
    /\ retry = NoRetry
    /\ tunnel = NoTunnel

SpecTrends == InitTrends /\ [][Next]_vars

\* ------------------------------------------------- the checks on any input
(* SpecChecks starts main at its first check, after the preconditions and  *)
(* git pull, on a repository drawn from Inputs: every pair of actual and   *)
(* recorded file counts up to MaxCount, every cron-health.json of at most  *)
(* MaxJobs jobs, and every combination of the four documents the checks    *)
(* parse being present, unparseable or absent; and up to MaxDocs knowledge  *)
(* files without frontmatter or with incomplete frontmatter; and every     *)
(* set of at most MaxScanned files for the secret scan.                    *)
DocKinds == {"ok", "corrupt", "absent"}

FileKinds ==
    { ScannedFile(c, d, r, t, a, m) :
        c, r, t, a, m \in BOOLEAN, d \in SUBSET {"HIGH", "MEDIUM"} }

\* the sets of at most n files
RECURSIVE FileSetsUpTo(_)
FileSetsUpTo(n) ==
    IF n = 0 THEN {{}}
    ELSE LET smaller == FileSetsUpTo(n - 1)
         IN smaller \cup { fs \cup {f} : fs \in smaller, f \in FileKinds }

FileSets == FileSetsUpTo(MaxScanned)

JobLists ==
    UNION { [1..n -> {Job(c, st) : c \in BOOLEAN, st \in {"ok", "failed", "overdue"}}]
              : n \in 0..MaxJobs }

Inputs ==
    { [Clean EXCEPT !.kbFiles = a, !.indexedCount = r] : a, r \in 0..MaxCount }
    \cup { [Clean EXCEPT !.jobs = js] : js \in JobLists }
    \cup { [Clean EXCEPT !.scanned = fs] : fs \in FileSets }
    \cup { [Clean EXCEPT !.missing = m, !.incomplete = k, !.kbFiles = m + k + 1,
                         !.indexedCount = m + k + 1] :
             m \in {0, 1, MaxDocs}, k \in 0..MaxDocs }
    \cup { [Clean EXCEPT !.topicsIndex = t, !.filesIndex = f, !.keywordsIndex = k,
                         !.cron = c] : t, f, k, c \in DocKinds }

InitChecks ==
    /\ pc = "checks" /\ runs = MaxRuns - 1
    /\ today = 1 /\ fixMode \in BOOLEAN /\ repoExists = TRUE /\ kbExists = TRUE
    /\ snap \in Inputs
    /\ findings = <<>> /\ autoFixes = <<>> /\ ci = 1 /\ fileCount = 0
    /\ stats = NoStats
    /\ unique = <<>> /\ fi = 0 /\ fixed = 0 /\ executed = <<>>
    /\ treeChanged = FALSE /\ gitCmds = {"pull"} /\ fixCount = 0
    /\ alert = NoAlert /\ exitCode = -1 /\ uncaught = "none"
    /\ report = NoSections
    /\ trendsFile = NoFile
    /\ reports = [d \in Dates |-> NoReport]
    /\ previous = NoPrevious
    /\ scan = NoScan
    /\ retry = NoRetry
    /\ tunnel = NoTunnel

SpecChecks == InitChecks /\ [][Next]_vars

\* ------------------------------------------------ getAllFiles on any tree
(* SpecScan calls getAllFiles once, on a root that exists or not and on    *)
(* every tree of at most MaxEntries entries: files and directories, hidden *)
(* or not, with or without the extension, nested in any way.               *)
RECURSIVE TreesUpTo(_)
TreesUpTo(n) ==
    IF n = 0 THEN {<<>>}
    ELSE LET smaller == TreesUpTo(n - 1)
         IN smaller \cup
            { Append(t, DirEntry(p, d, h, e)) :
                t \in {u \in smaller : Len(u) = n - 1},
                p \in 0..(n - 1), d, h, e \in BOOLEAN }

\* an entry lies in the root or in an earlier entry that is a directory
Trees ==
    { t \in TreesUpTo(MaxEntries) :
        \A k \in DOMAIN t : t[k].parent # 0 => t[t[k].parent].isDir }

\* No invocation of main is under way and none will start.
NoRun ==
    /\ pc = "idle" /\ runs = MaxRuns
    /\ today = 1 /\ fixMode = FALSE /\ repoExists = TRUE /\ kbExists = TRUE
    /\ snap = Clean
    /\ Fresh
    /\ trendsFile = NoFile
    /\ reports = [d \in Dates |-> NoReport]
    /\ previous = NoPrevious

InitScan ==
    /\ NoRun /\ retry = NoRetry /\ tunnel = NoTunnel
    /\ \E e \in BOOLEAN, t \in Trees :
          scan = [pc |-> "call", rootExists |-> e,
                  tree |-> IF e THEN t ELSE <<>>, files |-> <<>>]

CallGetAllFiles ==
    /\ scan.pc = "call"
    /\ scan' = [scan EXCEPT !.pc = "returned",
                            !.files = getAllFiles(scan.rootExists, scan.tree)]
    /\ UNCHANGED << auditVars, retry, tunnel >>

NextScan == CallGetAllFiles

SpecScan == InitScan /\ [][NextScan]_vars

\* ------------------------------------ iqfeed-bridge.js: query with retry
(* SpecRetry follows one call of iqfeedQueryWithRetry(command, maxRetries)  *)
(* for maxRetries up to MaxRetries.  An attempt opens a socket; the promise *)
(* of iqfeedQuery settles in the socket's 'data', 'timeout' and 'error'     *)
(* handlers.  When the peer closes the connection before the end marker,    *)
(* the socket emits 'end' and 'close', for which there is no handler, and   *)
(* its idle timer is cleared with it.                                       *)
RetryErrors == {"ECONNREFUSED", "ECONNRESET"}

InitRetry ==
    /\ NoRun /\ scan = NoScan /\ tunnel = NoTunnel
    /\ \E m \in 0..MaxRetries :
          retry = [NoRetry EXCEPT !.pc = "loop", !.maxRetries = m]

\* "for (...; attempt <= maxRetries; ...)": call iqfeedQuery, or leave the
\* loop and throw lastErr
LoopTest ==
    /\ retry.pc = "loop"
    /\ retry' = IF retry.attempt <= retry.maxRetries
                THEN [retry EXCEPT !.pc = "pending", !.sock = "open",
                                   !.attempts = @ + 1]
                ELSE [retry EXCEPT !.pc = "thrown", !.result = retry.lastErr]
    /\ UNCHANGED << auditVars, scan, tunnel >>

\* sock.on('data') seeing the end marker, or sock.on('timeout'): resolve(data)
SockResolve ==
    /\ retry.pc = "pending" /\ retry.sock = "open"
    /\ \E data \in {"complete", "partial"} :
          retry' = [retry EXCEPT !.pc = "returned", !.sock = "destroyed",
                                 !.result = <<data, retry.attempts>>]
    /\ UNCHANGED << auditVars, scan, tunnel >>

\* sock.on('error'): reject(err), caught by the loop
SockError ==
    /\ retry.pc = "pending" /\ retry.sock = "open"
    /\ \E err \in RetryErrors :
          LET e == <<err, retry.attempts>>
          IN retry' = [retry EXCEPT !.sock = "destroyed", !.lastErr = e,
                                    !.errors = Append(@, e),
                                    !.pc = IF retry.attempt < retry.maxRetries
                                           THEN "wait" ELSE "loop",
                                    !.attempt = IF retry.attempt < retry.maxRetries
                                                THEN @ ELSE @ + 1]
    /\ UNCHANGED << auditVars, scan, tunnel >>

\* the peer closes the connection: 'end' and 'close', the promise stays
\* pending
SockClose ==
    /\ retry.pc = "pending" /\ retry.sock = "open"
    /\ retry' = [retry EXCEPT !.sock = "closed"]
    /\ UNCHANGED << auditVars, scan, tunnel >>

\* the timer of "await new Promise(r => setTimeout(r, delay))" fires
DelayFires ==
    /\ retry.pc = "wait"
    /\ retry' = [retry EXCEPT !.waits = Append(@, (2 ^ retry.attempt) * 1000),
                              !.attempt = @ + 1, !.pc = "loop"]
    /\ UNCHANGED << auditVars, scan, tunnel >>

NextRetry == LoopTest \/ SockResolve \/ SockError \/ SockClose \/ DelayFires

SpecRetry == InitRetry /\ [][NextRetry]_vars /\ WF_vars(NextRetry)

\* ------------------------------------------- start-tunnel.js: the launcher
(* SpecTunnel follows the launcher from its first startTunnel() through up  *)
(* to MaxTunnels tunnel processes.  A process may exit at any time; the     *)
(* timers set when its URL was captured are never cancelled, and fire in    *)
(* the order of their delays (5 s before 60 s).                             *)
TunnelProc ==
    [state |-> "running", captured |-> FALSE, update |-> "none",
     grace |-> "none", interval |-> "none"]

InitTunnel ==
    /\ NoRun /\ scan = NoScan /\ retry = NoRetry
    /\ tunnel = [NoTunnel EXCEPT !.procs = <<TunnelProc>>]

\* handleOutput sees the URL for the first time: the two setTimeout calls
CaptureUrl ==
    /\ \E i \in DOMAIN tunnel.procs :
          /\ tunnel.procs[i].state = "running" /\ ~tunnel.procs[i].captured
          /\ tunnel' = [tunnel EXCEPT !.procs[i].captured = TRUE,
                                      !.procs[i].update = "armed",
                                      !.procs[i].grace = "armed"]
    /\ UNCHANGED << auditVars, scan, retry >>

\* the process exits: the 'exit' handlers registered so far run, the one of
\* startTunnel arming the restart, the one of the grace timer, when that
\* timer fired before, clearing the interval
ProcExit ==
    /\ \E i \in DOMAIN tunnel.procs :
          /\ tunnel.procs[i].state = "running"
          /\ tunnel' = [tunnel EXCEPT
                           !.procs[i].state = "exited",
                           !.procs[i].interval =
                               IF @ = "active" THEN "cleared" ELSE @,
                           !.restart = "armed"]
    /\ UNCHANGED << auditVars, scan, retry >>

\* "setTimeout(() => updateRepo(url), 5000)" fires
UpdateTimerFires ==
    /\ \E i \in DOMAIN tunnel.procs :
          /\ tunnel.procs[i].update = "armed"
          /\ tunnel' = [tunnel EXCEPT
                           !.procs[i].update = "fired",
                           !.updatedDead =
                               @ \/ tunnel.procs[i].state = "exited"]
    /\ UNCHANGED << auditVars, scan, retry >>

\* the 60 s timer fires: setInterval, then proc.on('exit', clearInterval),
\* which never runs for a process that has exited already
GraceTimerFires ==
    /\ \E i \in DOMAIN tunnel.procs :
          /\ tunnel.procs[i].grace = "armed" /\ tunnel.procs[i].update = "fired"
          /\ tunnel' = [tunnel EXCEPT !.procs[i].grace = "fired",
                                      !.procs[i].interval = "active"]
    /\ UNCHANGED << auditVars, scan, retry >>

\* the interval's callback runs: fetch(url + '/health')
HealthCheck ==
    /\ \E i \in DOMAIN tunnel.procs :
          /\ tunnel.procs[i].interval = "active"
          /\ tunnel' = [tunnel EXCEPT
                           !.checkedDead =
                               @ \/ tunnel.procs[i].state = "exited"]
    /\ UNCHANGED << auditVars, scan, retry >>

\* "setTimeout(startTunnel, 10000)" fires: spawn the next process
StartTunnel ==
    /\ tunnel.restart = "armed" /\ Len(tunnel.procs) < MaxTunnels
    /\ tunnel' = [tunnel EXCEPT !.restart = "none",
                                !.procs = Append(@, TunnelProc)]
    /\ UNCHANGED << auditVars, scan, retry >>

NextTunnel ==
    \/ CaptureUrl \/ ProcExit \/ UpdateTimerFires \/ GraceTimerFires
    \/ HealthCheck \/ StartTunnel

SpecTunnel == InitTunnel /\ [][NextTunnel]_vars

\* ----------------------------------------------------------------- claims
\* The invocation has saved its trend entry / written its report.
TrendRecorded ==
    \/ pc \in {"report", "notify", "exit"}
    \/ pc = "done" /\ (exitCode \in {0, 2} \/ uncaught = "sendTelegramAlert")
ReportWritten == TrendRecorded /\ pc # "report"
LastEntry == trendsFile.entries[Len(trendsFile.entries)]

GradeRule(c, w) ==
    IF c > 0 THEN "F" ELSE IF w > 3 THEN "C" ELSE IF w > 0 THEN "B" ELSE "A"

\* C1: for every (criticalCount, warningCount) the grade is F if criticals > 0,
\* else C if warnings > 3, else B if warnings > 0, else A; and within one run
\* the report's grade letter, the trend entry's grade and the notification's
\* grade are all that value for the run's Critical and Warning counts.
C1_GradeAgrees ==
    /\ \A c, w \in 0..MaxCount :
          /\ ReportGrade(c, w) = GradeRule(c, w)
          /\ TrendGrade(c, w) = GradeRule(c, w)
          /\ AlertGrade(c, w) = GradeRule(c, w)
    /\ TrendRecorded =>
          /\ LastEntry.date = today
          /\ LastEntry.criticals = criticalFindings
          /\ LastEntry.warnings = warningFindings
          /\ LastEntry.grade = GradeRule(criticalFindings, warningFindings)
    /\ ReportWritten =>
          reports[today].grade = GradeRule(criticalFindings, warningFindings)
    /\ alert.posted =>
          alert.grade = GradeRule(criticalFindings, warningFindings)

C1_Witness ==
    /\ pc = "done" /\ alert.posted /\ alert.grade = "C"
    /\ reports[today].grade = "C" /\ LastEntry.grade = "C"
    /\ warningFindings > 3

\* C2: after any sequence of completed runs, for any sequence of run dates,
\* the trend store holds at most one entry per date.
C2_OneEntryPerDate ==
    \A i, j \in DOMAIN trendsFile.entries :
        trendsFile.entries[i].date = trendsFile.entries[j].date => i = j

\* C3: the saved trend store never holds more than 90 entries; a run on a new
\* date against a store of 90 evicts exactly the oldest entry and keeps the
\* other 89 in their order, followed by the run's entry.
C3_Retention ==
    [][ (pc = "trend" /\ pc' = "report") =>
          LET old == loadTrends(trendsFile).entries
              new == trendsFile'.entries
          IN /\ Len(new) <= KeepDays
             /\ new[Len(new)].date = today
             /\ (Len(old) < KeepDays /\ (old = <<>> \/ old[Len(old)].date # today))
                   => SubSeq(new, 1, Len(new) - 1) = old
             /\ (Len(old) = KeepDays /\ old[Len(old)].date # today)
                   => /\ Len(new) = KeepDays
                      /\ SubSeq(new, 1, KeepDays - 1) = Tail(old) ]_vars

C3_Witness ==
    /\ Len(trendsFile.entries) = KeepDays
    /\ trendsFile.entries[KeepDays - 2].date = 0
    /\ trendsFile.entries[KeepDays - 1].date = 1
    /\ trendsFile.entries[KeepDays].date = 2

\* C4: if one of the 14 checks raises, the runner catches it, adds exactly one
\* Critical Finding naming the check, runs every later check, records the
\* trend and writes the report.
C4_CheckFaultIsolated ==
    (pc = "done" /\ kbExists /\ snap.raises > 0) =>
        /\ ci = NumChecks + 1
        /\ Cardinality({i \in DOMAIN findings :
               /\ findings[i].severity = CRITICAL
               /\ findings[i].message = CheckName(snap.raises)}) = 1
        /\ TrendRecorded /\ LastEntry.date = today
        /\ reports[today].written

\* C5: with the repository root or its knowledge directory missing the run
\* aborts with a nonzero exit code before any check: no finding, no git
\* command, no write of the trend store or of a report, no notification.
C5_FatalAbort ==
    [][ (pc = "main" /\ (~repoExists \/ ~kbExists)) =>
          /\ pc' = "done" /\ exitCode' # 0 /\ exitCode' # -1
          /\ findings' = <<>> /\ ci' = 0 /\ gitCmds' = {}
          /\ trendsFile' = trendsFile /\ reports' = reports
          /\ alert' = NoAlert ]_vars

C5_Witness ==
    /\ pc = "done" /\ repoExists /\ ~kbExists /\ exitCode = 1
    /\ findings = <<>> /\ gitCmds = {}
    /\ trendsFile.kind = "ok"

\* C6: a run that passes the fatal preconditions exits with code 0 when its
\* findings hold no Critical Finding and with code 2 when they hold one.
C6_ExitCode ==
    (pc = "done" /\ repoExists /\ kbExists) =>
        exitCode = IF criticalFindings > 0 THEN 2 ELSE 0

\* The descriptions of a queue, each at its first occurrence, in queue order.
FirstOccurrences(queue) ==
    LET firsts == {i \in DOMAIN queue :
                      \A j \in 1..(i - 1) : queue[j].description # queue[i].description}
        RECURSIVE Go(_)
        Go(i) == IF i = 0 THEN <<>>
                 ELSE IF i \in firsts THEN Append(Go(i - 1), queue[i])
                 ELSE Go(i - 1)
    IN Go(Len(queue))

FixesRan == fixMode /\ pc \in {"commit", "trend", "report", "notify", "exit"}

\* C7: in fix mode, N queued AutoFixes with the same description cause exactly
\* one execution, that of the first queued one: the executed actions are as
\* many as the distinct descriptions.
C7_DedupByDescription ==
    FixesRan =>
        /\ Len(executed) =
              Cardinality({autoFixes[i].description : i \in DOMAIN autoFixes})
        /\ \A i \in DOMAIN autoFixes :
              Cardinality({k \in DOMAIN executed :
                  executed[k].description = autoFixes[i].description}) = 1
        /\ executed = FirstOccurrences(autoFixes)

C7_Witness ==
    /\ FixesRan /\ Len(autoFixes) = 3 /\ Len(executed) = 1
    /\ autoFixes[1].action = "kbUpdate" /\ autoFixes[2].action = "throws"
    /\ executed[1].action = "kbUpdate"

\* C8: without --fix no AutoFix action is executed and no git add, commit or
\* push is issued, however many fixes are queued; the reported fix count is 0.
C8_NoFixWithoutFlag ==
    ~fixMode =>
        /\ executed = <<>>
        /\ gitCmds \cap {"add", "commit", "push"} = {}
        /\ fixCount = 0
        /\ ReportWritten => reports[today].fixCount = 0

C8_Witness ==
    /\ ~fixMode /\ Len(autoFixes) = 3 /\ pc = "done" /\ exitCode = 0
    /\ executed = <<>> /\ reports[today].written

\* C9: in fix mode add, commit and push are issued only if the executed fixes
\* changed the working tree, also when the tree was dirty before the run.
C9_CommitOnlyIfChanged ==
    (gitCmds \cap {"add", "commit", "push"} # {}) => treeChanged

\* C10: in fix mode, when a unique fix's action throws, the exception is caught,
\* the fix is not counted, every remaining unique fix is still executed once
\* in queue order, and the run goes on to record the trend and write the
\* report.
C10_FailingFixIsolated ==
    LET ok == {k \in DOMAIN executed : executed[k].action # "throws"}
    IN /\ uncaught # "runAutoFixes"
       /\ FixesRan =>
             /\ executed = FirstOccurrences(autoFixes)
             /\ fixed = Cardinality(ok)
             /\ pc # "commit" => fixCount = Cardinality(ok)
       /\ (pc = "done" /\ executed # <<>>) =>
             /\ trendsFile.entries # <<>>
             /\ LastEntry.date = today
             /\ reports[today].written
             /\ reports[today].fixCount = Cardinality(ok)

C10_Witness ==
    /\ pc = "done" /\ Len(executed) = 3
    /\ executed[1].action = "throws" /\ executed[2].action = "kbUpdate"
    /\ executed[3].action = "kbUpdate"
    /\ reports[today].fixCount = 2 /\ exitCode = 0

\* The descriptions the metadata-completeness and index-freshness checks
\* register their fixes under.
RepairDescriptions ==
    { "Tag untagged files + rebuild index", "Repair incomplete frontmatter files",
      "Rebuild KB index (stale)", "Rebuild KB index (orphaned entries)" }

\* C11: the queue of AutoFixes holds only fixes registered by the
\* metadata-completeness and index-freshness checks, and only those are ever
\* executed: none for a Security, Security-Deep, Structure or Naming Finding.
C11_OnlyRepairFixes ==
    /\ \A i \in DOMAIN autoFixes : autoFixes[i].description[1] \in RepairDescriptions
    /\ \A k \in DOMAIN executed : executed[k].description[1] \in RepairDescriptions
    /\ (pc \in {"fix", "fixloop", "commit", "trend", "report", "notify", "exit"}) =>
          autoFixes = checkFrontmatter(snap).fixes
                         \o checkIndexFreshness(snap, snap.kbFiles).fixes

C11_Witness ==
    /\ pc = "done" /\ fixMode /\ exitCode = 2
    /\ \E i \in DOMAIN findings :
          findings[i].category = "Security" /\ findings[i].severity = CRITICAL
    /\ \E i \in DOMAIN findings :
          findings[i].category = "Security-Deep" /\ findings[i].severity = CRITICAL
    /\ \E i \in DOMAIN findings :
          findings[i].category = "Structure" /\ findings[i].severity = WARNING
    /\ \E i \in DOMAIN findings :
          findings[i].category = "Naming" /\ findings[i].severity = WARNING
    /\ Len(executed) = 2

\* The findings of one category, in the order they were added.
InCategory(category) == SelectSeq(findings, LAMBDA f : f.category = category)

\* C12: for every actual file count and every parseable index with recorded
\* count r the index-freshness check emits exactly one Index Finding: Ok when
\* actual = r, the "stale" Warning when actual > r, the "more files than
\* exist" Warning, a different message, when actual < r.
C12_IndexSign ==
    (ci > 2 /\ snap.topicsIndex = "ok") =>
        InCategory("Index") =
            << IF snap.kbFiles = snap.indexedCount
               THEN Finding(OK, "Index", "current")
               ELSE IF snap.kbFiles > snap.indexedCount
               THEN Finding(WARNING, "Index", "stale")
               ELSE Finding(WARNING, "Index", "more files than exist") >>

C12_Witness ==
    /\ pc = "done" /\ exitCode = 0 /\ snap.kbFiles = 0 /\ snap.indexedCount = 1
    /\ InCategory("Index") = <<Finding(WARNING, "Index", "more files than exist")>>

\* C13: when cron-health.json holds a job with circuitOpen true, the
\* job-health check emits exactly one Cron Health Finding, a Critical one, and
\* no Warning for failed or overdue jobs, whatever the jobs' statuses.
C13_CircuitOpenOnly ==
    (ci > NumChecks /\ snap.cron = "ok"
        /\ \E k \in DOMAIN snap.jobs : snap.jobs[k].circuitOpen) =>
        InCategory("Cron Health") =
            <<Finding(CRITICAL, "Cron Health", "circuit breakers open")>>

C13_Witness ==
    /\ pc = "done" /\ exitCode = 2
    /\ snap.jobs = <<Job(FALSE, "overdue"), Job(TRUE, "failed")>>
    /\ InCategory("Cron Health") =
          <<Finding(CRITICAL, "Cron Health", "circuit breakers open")>>

\* A Critical Finding of one of the categories that names a corruption.
CorruptionReported(categories) ==
    \E i \in DOMAIN findings :
        /\ findings[i].severity = CRITICAL
        /\ findings[i].category \in categories
        /\ findings[i].message \in {"corrupted", "index files corrupted",
                                    "failed to parse"}

\* C14: whenever a document a check reads exists but is unparseable
\* (TOPICS-INDEX.json, FILES-INDEX.json, KEYWORDS-INDEX.json, cron-health.json)
\* the run adds a Critical Finding naming the corruption and goes on with the
\* remaining checks.
C14_MalformedIsCritical ==
    /\ (pc = "done" /\ kbExists /\ snap.raises = 0) => ci > NumChecks
    /\ ci > NumChecks =>
          /\ snap.topicsIndex = "corrupt" => CorruptionReported({"Index"})
          /\ snap.filesIndex = "corrupt" =>
                CorruptionReported({"Orphans", "Search Coverage"})
          /\ snap.keywordsIndex = "corrupt" =>
                CorruptionReported({"Search Coverage"})
          /\ snap.cron = "corrupt" => CorruptionReported({"Cron Health"})

\* The last two entries of the store.
Prev == trendsFile.entries[Len(trendsFile.entries) - 1]
Curr == trendsFile.entries[Len(trendsFile.entries)]

\* C15: regression analysis of a store with at least two entries depends only
\* on the last two (prev, curr): a critical regression iff curr.criticals >
\* prev.criticals, a warning regression iff curr.warnings > prev.warnings + 2,
\* a memory regression iff curr memory size > 1.5 x prev memory size and
\* curr memory size > 5 MB (sizes in tenths of a MB); with fewer than two
\* entries no analysis is produced.
C15_Regressions ==
    ReportWritten =>
        LET a == report.trends
            has(r) == \E i \in DOMAIN a.regressions : a.regressions[i] = r
        IN IF Len(trendsFile.entries) < 2 THEN ~a.analysed
           ELSE /\ a.analysed
                /\ has("Criticals increased") <=> Curr.criticals > Prev.criticals
                /\ has("Warnings spiked") <=> Curr.warnings > Prev.warnings + 2
                /\ has("Memory bloat") <=>
                      /\ 2 * Curr.memSizeMB > 3 * Prev.memSizeMB
                      /\ Curr.memSizeMB > 50

\* The entries recurring-issue detection examines, and what the claim counts.
Recent == LastN(trendsFile.entries, RecentDays)
CriticalDays == Cardinality({i \in DOMAIN Recent : Recent[i].criticals > 0})
GradeChanges ==
    Cardinality({i \in DOMAIN Recent : i > 1 /\ Recent[i].grade # Recent[i - 1].grade})
TotalWarnings ==
    LET RECURSIVE Sum(_)
        Sum(i) == IF i = 0 THEN 0 ELSE Recent[i].warnings + Sum(i - 1)
    IN Sum(Len(Recent))
WeekGrowth == Recent[Len(Recent)].kbFiles - Recent[1].kbFiles
Recurring(kind) == \E i \in DOMAIN report.recurring : report.recurring[i].kind = kind
RecurringN(kind) ==
    {report.recurring[i].n : i \in {j \in DOMAIN report.recurring :
                                      report.recurring[j].kind = kind}}

\* C16 as stated: for every trend store, detection over the trailing 7
\* entries (all when fewer) reports the critical-recurrence item with k iff
\* k >= 2 entries have criticals, instability iff >= 3 grade changes, chronic
\* warnings iff the mean warning count > 3, runaway growth iff the last
\* entry's file count exceeds the first's by more than 100.
C16_RecurringAnyStore ==
    ReportWritten =>
        /\ Recurring("criticals") <=> CriticalDays >= 2
        /\ Recurring("criticals") => RecurringN("criticals") = {CriticalDays}
        /\ Recurring("unstable") <=> GradeChanges >= 3
        /\ Recurring("chronic") <=> TotalWarnings > 3 * Len(Recent)
        /\ Recurring("growth") <=> WeekGrowth > 100

\* C16 amended: the same for every store of at least 3 entries, with the
\* runaway-growth item only when at least 5 entries are examined; a store of
\* fewer than 3 entries yields no item.
C16_Recurring ==
    ReportWritten =>
        IF Len(trendsFile.entries) < 3 THEN report.recurring = <<>>
        ELSE /\ Recurring("criticals") <=> CriticalDays >= 2
             /\ Recurring("criticals") => RecurringN("criticals") = {CriticalDays}
             /\ Recurring("unstable") <=> GradeChanges >= 3
             /\ Recurring("chronic") <=> TotalWarnings > 3 * Len(Recent)
             /\ Recurring("growth") <=> (Len(Recent) >= 5 /\ WeekGrowth > 100)
             /\ Len(report.recurring) =
                   Cardinality({report.recurring[i].kind : i \in DOMAIN report.recurring})

C16_Witness ==
    /\ pc = "done" /\ Len(trendsFile.entries) = RecentDays + 1
    /\ trendsFile.entries[1].criticals > 0
    /\ RecurringN("criticals") = {2}
    /\ Recurring("unstable") /\ ~Recurring("chronic") /\ ~Recurring("growth")

\* C17: the weekly rollup is added to a run's report only when the run's date
\* is a Friday; when produced, its date range, week deltas and best and worst
\* day come from the trailing 5 entries of the store, the run's own included.
C17_RollupOnlyOnFriday ==
    (ReportWritten /\ report.weekly.present) =>
        LET week == LastN(trendsFile.entries, WeekDays)
        IN /\ DayOfWeek(today) = Friday
           /\ week[Len(week)].date = today
           /\ report.weekly.from = week[1].date
           /\ report.weekly.to = today
           /\ report.weekly.kbFilesDelta = week[Len(week)].kbFiles - week[1].kbFiles
           /\ \A i \in DOMAIN week :
                 /\ week[i].date = report.weekly.bestDay =>
                       \A j \in DOMAIN week : Issues(week[i]) <= Issues(week[j])
                 /\ week[i].date = report.weekly.worstDay =>
                       \A j \in DOMAIN week : Issues(week[i]) >= Issues(week[j])

C19_ReportPerDate ==
    [][ /\ \A d \in Dates :
              reports'[d] # reports[d] => (d = today /\ pc = "report")
        /\ (pc = "report" /\ pc' = "notify") => reports'[today].written
        /\ (pc' = "done" /\ exitCode' \in {0, 2}) => reports'[today].written ]_vars

C19_Witness ==
    /\ pc = "done" /\ today = 2 /\ exitCode = 0
    /\ reports[1].written /\ reports[1].grade = "F"
    /\ reports[2].written /\ reports[2].grade = "A"

\* C20: two immediate runs on the same date against an unchanged repository,
\* without fix mode, produce identical Findings lists (severity, category,
\* message and details of every Finding) and leave the trend store with
\* exactly one entry for that date.
C20_Idempotent ==
    (pc = "done" /\ exitCode \in {0, 2} /\ previous.rerun) =>
        /\ findings = previous.findings
        /\ Cardinality({i \in DOMAIN trendsFile.entries :
                           trendsFile.entries[i].date = today}) = 1

\* C21: the Findings a check produces are a function of the repository
\* snapshot alone: called on the same snapshot after any other return value of
\* another check, it yields the same Findings.  Stated at main's call of
\* checkIndexFreshness, for every value checkFrontmatter could have returned.
C21_ChecksIndependent ==
    (pc = "checks" /\ ci = 2) =>
        \A other \in 0..MaxCount :
            checkIndexFreshness(snap, other).findings
                = checkIndexFreshness(snap, fileCount).findings

\* C22: when k >= 1 documents have a header block lacking a required key and
\* all other documents are complete, the metadata-completeness check emits
\* exactly one Warning Finding whose details list min(k, 20) of the files,
\* followed by a "+N more" suffix with N = k - 20 exactly when k > 20.
C22_IncompleteListed ==
    (ci > 1 /\ snap.incomplete >= 1 /\ snap.missing = 0) =>
        InCategory("Frontmatter") =
            << FindingWith(WARNING, "Frontmatter", "incomplete",
                           << IF snap.incomplete < 20 THEN snap.incomplete ELSE 20,
                              IF snap.incomplete > 20
                              THEN snap.incomplete - 20 ELSE 0 >>) >>

\* The directories on the way from the root to entry k, k excluded.
RECURSIVE Ancestors(_, _)
Ancestors(tree, k) ==
    IF tree[k].parent = 0 THEN {}
    ELSE {tree[k].parent} \cup Ancestors(tree, tree[k].parent)

\* C23: the scanner returns exactly the non-directory entries whose name ends
\* with the extension and that are reachable from the root through directories
\* whose names do not start with '.', each once; nothing at or below a
\* '.'-prefixed directory is returned; a root that does not exist yields the
\* empty list.
C23_ScanExact ==
    scan.pc = "returned" =>
        LET t == scan.tree
            fs == scan.files
        IN /\ {fs[i] : i \in DOMAIN fs}
                = { k \in DOMAIN t :
                      /\ ~t[k].isDir /\ t[k].ext
                      /\ \A a \in Ancestors(t, k) : ~t[a].dot }
           /\ \A i, j \in DOMAIN fs : fs[i] = fs[j] => i = j
           /\ \A i \in DOMAIN fs :
                 \A a \in Ancestors(t, fs[i]) \cup {fs[i]} :
                    ~(t[a].isDir /\ t[a].dot)
           /\ ~scan.rootExists => fs = <<>>

\* The entries are in strictly ascending order of date.
Ascending(entries) ==
    \A i \in 1..(Len(entries) - 1) : entries[i].date < entries[i + 1].date

\* C24: a run that finds the trend store empty or in ascending order of date,
\* and runs on a date not before the store's last, leaves the store in
\* strictly ascending order of date with its own entry last; so the store is
\* ascending after any sequence of completed runs with non-decreasing dates.
C24_StoreAscending ==
    [][ LET old == loadTrends(trendsFile).entries
            new == trendsFile'.entries
        IN (/\ pc = "trend" /\ pc' = "report"
            /\ Ascending(old)
            /\ old # <<>> => old[Len(old)].date <= today) =>
               /\ new # <<>>
               /\ Ascending(new)
               /\ new[Len(new)].date = today ]_vars

\* Two runs on consecutive days have completed on a full store: the oldest
\* entry was dropped and the store is ascending up to the second run's date.
C24_Witness ==
    /\ pc = "done" /\ exitCode = 0 /\ runs = MaxRuns /\ today = 2
    /\ Len(trendsFile.entries) = KeepDays
    /\ trendsFile.entries[KeepDays].date = 2
    /\ trendsFile.entries[KeepDays - 1].date = 1
    /\ Ascending(trendsFile.entries)

\* The files named in the details of the findings of one category.
FilesReported(category) ==
    UNION { InCategory(category)[i].details[1] :
              i \in {j \in DOMAIN InCategory(category) :
                        InCategory(category)[j].details # <<>>} }

\* C25: credential patterns are matched against every file the scan reads,
\* whatever its modification time, while a Security-Deep hit is recorded only
\* for a file modified within the last 7 days that is neither on the
\* allow-list nor a dated daily memory log: an allow-listed or older file
\* never contributes to a Security-Deep Finding.
C25_DeepScanWindow ==
    ci > 4 =>
        /\ FilesReported("Security") = {f \in snap.scanned : f.secret /\ ~f.tool}
        /\ \A f \in FilesReported("Security-Deep") :
              f.recent /\ ~f.allowed /\ ~f.daily
        /\ \A f \in snap.scanned :
              (f.recent /\ ~f.allowed /\ ~f.daily /\ ~f.tool /\ f.deep # {})
                  => f \in FilesReported("Security-Deep")

\* An old file holding both a credential and an injection phrase was scanned:
\* the credential is reported, the deep scan is clean.
C25_Witness ==
    /\ pc = "done" /\ exitCode = 2
    /\ snap.scanned = {ScannedFile(TRUE, {"HIGH"}, FALSE, FALSE, FALSE, FALSE)}
    /\ FilesReported("Security") = snap.scanned
    /\ InCategory("Security-Deep") = <<Finding(OK, "Security-Deep", "clean")>>

\* C26: iqfeedQueryWithRetry makes at most maxRetries + 1 attempts; it returns
\* the result of the first attempt that resolves and makes no further attempt;
\* it waits 1 s after the first failed attempt and 2 s after the second; it
\* rejects with the error of the last attempt only after every attempt has
\* failed; and it always terminates.
C26_BoundedRetry ==
    /\ [](/\ retry.attempts <= retry.maxRetries + 1
          /\ \A i \in DOMAIN retry.waits : retry.waits[i] = (2 ^ (i - 1)) * 1000
          /\ retry.pc = "returned" =>
                /\ retry.result[2] = retry.attempts
                /\ Len(retry.errors) = retry.attempts - 1
          /\ retry.pc = "thrown" =>
                /\ retry.attempts = retry.maxRetries + 1
                /\ Len(retry.errors) = retry.attempts
                /\ retry.result = retry.errors[retry.attempts]
                /\ Len(retry.waits) = retry.maxRetries)
    /\ <>(retry.pc \in {"returned", "thrown"})

\* The place of a step of main in the order of its statements.
StepRank(p) ==
    CASE p = "idle" -> 0 [] p = "main" -> 1 [] p = "checks" -> 2
      [] p = "fix" -> 3 [] p = "fixloop" -> 4 [] p = "commit" -> 5
      [] p = "trend" -> 6 [] p = "report" -> 7 [] p = "notify" -> 8
      [] p = "exit" -> 9 [] p = "done" -> 10

\* C27: within a run the steps occur in this order: the 14 checks in their
\* fixed order, then the auto-fixes (fix mode only), then one read-modify-write
\* of the trend store, then the report write, then the notification.  No check
\* runs after an auto-fix: the findings are unchanged from the last check on,
\* and the counts and grade of the trend entry and of the report are those of
\* the findings the checks produced.
C27_StepOrder ==
    [][ pc' # "main" =>
          /\ StepRank(pc') >= StepRank(pc)
          /\ ci' # ci => /\ ci' = ci + 1 /\ pc \in {"main", "checks"}
                         /\ executed = <<>> /\ pc' \in {"checks", "fix"}
          /\ (pc = "checks" /\ ci' = ci + 1) =>
                SubSeq(findings', 1, Len(findings)) = findings
          /\ executed' # executed =>
                fixMode /\ ci = NumChecks + 1 /\ pc = "fixloop"
          /\ StepRank(pc) > StepRank("checks") => findings' = findings
          /\ pc = "trend" => pc' \in {"report", "done"}
          /\ trendsFile' # trendsFile =>
                /\ pc = "trend" /\ pc' = "report"
                /\ LET e == trendsFile'.entries[Len(trendsFile'.entries)]
                   IN /\ e.criticals = criticalFindings
                      /\ e.warnings = warningFindings
                      /\ e.grade = GradeRule(criticalFindings, warningFindings)
          /\ reports' # reports =>
                /\ pc = "report" /\ pc' = "notify"
                /\ reports'[today].criticals = criticalFindings
                /\ reports'[today].warnings = warningFindings
                /\ reports'[today].grade
                      = GradeRule(criticalFindings, warningFindings)
          /\ alert' # alert => pc = "notify" ]_vars

\* A run in fix mode has completed after executing a fix and posting its
\* alert; its trend entry and report carry the findings' counts.
C27_Witness ==
    /\ pc = "done" /\ exitCode = 0 /\ fixMode /\ executed # <<>>
    /\ ci = NumChecks + 1 /\ warningFindings > 0
    /\ LastEntry.date = today /\ LastEntry.warnings = warningFindings
    /\ reports[today].written /\ reports[today].warnings = warningFindings
    /\ alert.posted

ActiveLoops ==
    {i \in DOMAIN tunnel.procs : tunnel.procs[i].interval = "active"}

\* C29: whenever a tunnel process exits relative to its 5 s repository-update
\* timer and its 60 s grace timer, once it has exited no health check is
\* issued for its URL and no repository update for its URL is started, so at
\* most one health-check loop is active across restarts.
C29_NoStaleTimers ==
    /\ ~tunnel.checkedDead
    /\ ~tunnel.updatedDead
    /\ Cardinality(ActiveLoops) <= 1

\* C30: a failure inside the notification step (credentials file missing,
\* incomplete or not parseable, or the POST failing or timing out) never
\* changes the run's outcome: the report has been written, the run reaches
\* its end, and the exit code is 0 without Critical Findings and 2 with them.
C30_AlertFailureHarmless ==
    (pc = "done" /\ alert.creds # "unread") =>
        /\ reports[today].written
        /\ reports[today].criticals = criticalFindings
        /\ uncaught = "none"
        /\ exitCode = IF criticalFindings > 0 THEN 2 ELSE 0

====
